---- MODULE Spec2Model ----
(***************************************************************************)
(* The tyto BitTorrent tracker: the announce and scrape handlers of        *)
(* src/network/mod.rs, the request parsers of src/bittorrent.rs and the    *)
(* reaper of src/storage/reaper.rs, over the peer store, the torrent store *)
(* and the global statistics.  The three stores are not among the source   *)
(* files; their operations follow sections 4.3, 4.4 and 3 of the           *)
(* specification.  Every `.await` of a handler is one step of the model:   *)
(* a store call takes its lock, acts and releases it.                      *)
(***************************************************************************)
EXTENDS Integers, Sequences, FiniteSets, TLC

\* ------------------------------------------------------------ bounds
\* Requests accepted over a run with handlers and reaper interleaved (caps
\* every counter).
MaxRequests == 2
\* Requests accepted over a run that serves them one after another.
MaxSeqRequests == 3
MaxReapRequests == 3
MaxLiveRequests == 2
MaxAgeRequests == 3
MaxEvictRequests == 2

\* ------------------------------------------------- program constants
\* Reaper::peer_timeout, in clock ticks.  Time is kept as the ticks elapsed
\* since a peer's last_announced, counted up to peer_timeout: the reaper
\* tells no two larger values apart.
PeerTimeout == 1
\* config.bt.announce_rate, the interval of a successful response.
AnnounceRate == 1800

\* ------------------------------------------------------------ inputs
Handlers == {"h1", "h2"}
InfoHashes == {"A", "B"}
PeerIds == {"p1", "p2"}
NumWants == {1}
PeerTimeouts == {0, 1, 2}
NoHolder == "none"

\* The address family of a peer (the Peer::V4 | Peer::V6 tag).
PeerFamily(p) == IF p = "p2" THEN "V6" ELSE "V4"

\* ------------------------------------------------- partial functions
Put(f, k, v) == [x \in DOMAIN f \cup {k} |-> IF x = k THEN v ELSE f[x]]
Remove(f, k) == [x \in DOMAIN f \ {k} |-> f[x]]
Empty == [x \in {} |-> 0]

\* --------------------------------------------------- request parsing
\* str::parse::<u16>() / ::<u32>() on the values the queries carry.
StrToNat(s) ==
  CASE s = "0" -> 0
    [] s = "1" -> 1
    [] s = "6881" -> 6881
    [] s = "65536" -> 65536
    [] OTHER -> -1

parse_u16(s) == IF StrToNat(s) >= 0 /\ StrToNat(s) < 65536
                THEN [ok |-> TRUE, n |-> StrToNat(s)]
                ELSE [ok |-> FALSE, n |-> 0]

\* Every number among the values fits a u32.
parse_u32(s) == IF StrToNat(s) >= 0
                THEN [ok |-> TRUE, n |-> StrToNat(s)]
                ELSE [ok |-> FALSE, n |-> 0]

\* The match taken without regard to case.
string_to_event_nocase(s) ==
  CASE s \in {"started", "STARTED"} -> "Started"
    [] s = "stopped" -> "Stopped"
    [] s = "completed" -> "Completed"
    [] OTHER -> "None"

string_to_event(s) ==
  CASE s = "started" -> "Started"
    [] s = "stopped" -> "Stopped"
    [] s = "completed" -> "Completed"
    [] s = "" -> "None"
    [] OTHER -> "None"

\* ------------------------------------------------------ compact peers
\* An accumulator of w bytes (u32: 4, u128: 16) is kept as its bytes, the
\* highest first; overflow says a carry has left the highest byte.
Zero(w) == [bytes |-> [i \in 1..w |-> 0], overflow |-> FALSE]

\* ip += v << (8 * n), v below 256 and then the carries.
RECURSIVE AddShifted(_, _, _)
AddShifted(ip, v, n) ==
  IF v = 0 THEN ip
  ELSE IF n >= Len(ip.bytes) THEN [ip EXCEPT !.overflow = TRUE]
  ELSE LET i == Len(ip.bytes) - n
           s == ip.bytes[i] + v
       IN AddShifted([ip EXCEPT !.bytes[i] = s % 256], s \div 256, n + 1)

\* The counter taken as the number of octets.
NumOctets_len(octets) == Len(octets)

\* let mut num_octets = (octets.len() - 1)
NumOctets(octets) == Len(octets) - 1

\* for x in octets.iter(): shifted while num_octets > 0, added as it is after.
RECURSIVE CompactLoop(_, _, _)
CompactLoop(octets, num_octets, ip) ==
  IF octets = <<>> THEN ip
  ELSE IF num_octets > 0
       THEN CompactLoop(Tail(octets), num_octets - 1,
                        AddShifted(ip, Head(octets), num_octets))
       ELSE CompactLoop(Tail(octets), num_octets,
                        AddShifted(ip, Head(octets), 0))

\* put_u16_be(port), port.to_be_bytes()
PortBytes(port) == <<port \div 256, port % 256>>

Peerv4_compact(peer) ==
  LET ip == CompactLoop(peer.ip, NumOctets(peer.ip), Zero(4))
  IN [bytes |-> ip.bytes \o PortBytes(peer.port), overflow |-> ip.overflow]

Peerv6_compact(peer) ==
  LET ip == CompactLoop(peer.ip, NumOctets(peer.ip), Zero(16))
  IN [bytes |-> ip.bytes \o PortBytes(peer.port), overflow |-> ip.overflow]

\* The locals of AnnounceRequest::new before its loop.
AnnounceDefaults ==
  [ok |-> TRUE, err |-> "", info_hash |-> "", peer |-> "", port |-> 0,
   uploaded |-> 0, downloaded |-> 0, left |-> 0, compact |-> FALSE,
   no_peer_id |-> FALSE, event |-> "None"]

AnnounceErr(reason) == [AnnounceDefaults EXCEPT !.ok = FALSE, !.err = reason]

\* One iteration of the loop of AnnounceRequest::new: the match on the key.
AnnounceKey(acc, key, value) ==
  CASE key = "info_hash" -> [acc EXCEPT !.info_hash = value]
    [] key = "peer" -> [acc EXCEPT !.peer = value]
    [] key = "port" ->
         IF parse_u16(value).ok THEN [acc EXCEPT !.port = parse_u16(value).n]
         ELSE AnnounceErr("Unable to parse port")
    [] key = "uploaded" ->
         IF parse_u32(value).ok THEN [acc EXCEPT !.uploaded = parse_u32(value).n]
         ELSE AnnounceErr("Unable to parse uploaded quantity")
    [] key = "downloaded" ->
         IF parse_u32(value).ok THEN [acc EXCEPT !.downloaded = parse_u32(value).n]
         ELSE AnnounceErr("Unable to parse downloaded quantity")
    [] key = "left" ->
         IF parse_u32(value).ok THEN [acc EXCEPT !.left = parse_u32(value).n]
         ELSE AnnounceErr("Unable to parse remaining quantity")
    [] key = "compact" ->
         IF parse_u32(value).ok THEN [acc EXCEPT !.compact = (parse_u32(value).n # 0)]
         ELSE AnnounceErr("Unable to parse compact value as boolean")
    [] key = "no_peer_id" ->
         IF parse_u32(value).ok THEN [acc EXCEPT !.no_peer_id = (parse_u32(value).n # 0)]
         ELSE AnnounceErr("Unable to parse no_peer_id as boolean")
    [] key = "event" -> [acc EXCEPT !.event = string_to_event(value)]
    [] OTHER -> acc

RECURSIVE AnnounceLoop(_, _)
AnnounceLoop(pairs, acc) ==
  IF pairs = <<>> THEN acc
  ELSE LET next == AnnounceKey(acc, Head(pairs)[1], Head(pairs)[2])
       IN IF next.ok THEN AnnounceLoop(Tail(pairs), next) ELSE next

\* AnnounceRequest::new on the key/value pairs of the query string.
AnnounceRequest_new(query) == AnnounceLoop(query, AnnounceDefaults)

\* AnnounceResponse::default(), with the files of a ScrapeResponse.
DefaultResponse ==
  [failure_reason |-> "", interval |-> 0, tracker_id |-> "", complete |-> 0,
   incomplete |-> 0, peers |-> {}, peers6 |-> {}, files |-> <<>>]

AnnounceResponse_fail(reason) == [DefaultResponse EXCEPT !.failure_reason = reason]

AnnounceResponse_new(interval, complete, incomplete, peers, peers6) ==
  [DefaultResponse EXCEPT !.interval = interval, !.complete = complete,
                          !.incomplete = incomplete, !.peers = peers,
                          !.peers6 = peers6]

\* The loop of ScrapeRequest::new with `_ => {}` for a key that is not
\* info_hash, as AnnounceRequest::new has it.
RECURSIVE ScrapeLoop_skips(_, _)
ScrapeLoop_skips(pairs, info_hashes) ==
  IF pairs = <<>> THEN [ok |-> TRUE, err |-> "", info_hashes |-> info_hashes]
  ELSE IF Head(pairs)[1] = "info_hash"
       THEN ScrapeLoop_skips(Tail(pairs), Append(info_hashes, Head(pairs)[2]))
       ELSE ScrapeLoop_skips(Tail(pairs), info_hashes)

\* The loop of ScrapeRequest::new.
RECURSIVE ScrapeLoop(_, _)
ScrapeLoop(pairs, info_hashes) ==
  IF pairs = <<>> THEN [ok |-> TRUE, err |-> "", info_hashes |-> info_hashes]
  ELSE IF Head(pairs)[1] = "info_hash"
       THEN ScrapeLoop(Tail(pairs), Append(info_hashes, Head(pairs)[2]))
       ELSE [ok |-> FALSE, err |-> "Malformed scrape request", info_hashes |-> <<>>]

\* ScrapeRequest::new on the key/value pairs of the query string.
ScrapeRequest_new(query) == ScrapeLoop(query, <<>>)

\* -------------------------------------------------------- peer store
\* A swarm: seeders and leechers, each keyed by peer_id; a peer is held as
\* last_announced.elapsed().
EmptySwarm == [seeders |-> Empty, leechers |-> Empty]

SwarmOf(R, ih) == IF ih \in DOMAIN R THEN R[ih] ELSE EmptySwarm

\* put_leecher(ih, peer): insert into leechers; if present in seeders, remove
\* there first.  The swarm is created on first use.
put_leecher(R, ih, p, t) ==
  Put(R, ih, [seeders |-> Remove(SwarmOf(R, ih).seeders, p),
              leechers |-> Put(SwarmOf(R, ih).leechers, p, t)])

\* promote_leecher that inserts into seeders and forgets to remove the leecher.
promote_leecher_keeps(R, ih, p) ==
  IF ih \in DOMAIN R /\ p \in DOMAIN R[ih].leechers
  THEN [R EXCEPT ![ih].seeders = Put(R[ih].seeders, p, R[ih].leechers[p])]
  ELSE R

\* promote_leecher(ih, peer_id): move the peer from leechers to seeders;
\* no-op if absent.
promote_leecher(R, ih, p) ==
  IF ih \in DOMAIN R /\ p \in DOMAIN R[ih].leechers
  THEN [R EXCEPT ![ih] = [seeders |-> Put(R[ih].seeders, p, R[ih].leechers[p]),
                          leechers |-> Remove(R[ih].leechers, p)]]
  ELSE R

\* remove_seeder(ih, peer_id) -> bool: the store after, and whether a peer
\* was removed.
remove_seeder(R, ih, p) ==
  IF ih \in DOMAIN R /\ p \in DOMAIN R[ih].seeders
  THEN [store |-> [R EXCEPT ![ih].seeders = Remove(R[ih].seeders, p)],
        removed |-> TRUE]
  ELSE [store |-> R, removed |-> FALSE]

remove_leecher(R, ih, p) ==
  IF ih \in DOMAIN R /\ p \in DOMAIN R[ih].leechers
  THEN [store |-> [R EXCEPT ![ih].leechers = Remove(R[ih].leechers, p)],
        removed |-> TRUE]
  ELSE [store |-> R, removed |-> FALSE]

\* update_peer(ih, peer): refresh the peer in whichever set holds it; no-op
\* if absent.
update_peer(R, ih, p, t) ==
  IF ih \notin DOMAIN R THEN R
  ELSE IF p \in DOMAIN R[ih].seeders THEN [R EXCEPT ![ih].seeders[p] = t]
  ELSE IF p \in DOMAIN R[ih].leechers THEN [R EXCEPT ![ih].leechers[p] = t]
  ELSE R

SwarmPeers(R, ih) == DOMAIN SwarmOf(R, ih).seeders \cup DOMAIN SwarmOf(R, ih).leechers

Min(a, b) == IF a < b THEN a ELSE b

\* get_peers(ih, numwant): the samples the store may return, each a set of
\* min(numwant, |swarm|) peers of the swarm.
get_peers(R, ih, nw) ==
  {S \in SUBSET SwarmPeers(R, ih) :
     Cardinality(S) = Min(nw, Cardinality(SwarmPeers(R, ih)))}

\* ----------------------------------------------------- torrent store
NoTorrent == [complete |-> 0, incomplete |-> 0, downloaded |-> 0]

\* new_leech(ih): ensure the record exists; incomplete += 1.
new_leech(T, ih) ==
  LET rec == IF ih \in DOMAIN T THEN T[ih] ELSE NoTorrent
  IN Put(T, ih, [rec EXCEPT !.incomplete = @ + 1])

\* new_seed(ih): complete += 1; downloaded += 1; incomplete -= 1 saturating.
new_seed(T, ih) ==
  IF ih \in DOMAIN T
  THEN [T EXCEPT ![ih] = [complete |-> @.complete + 1,
                          downloaded |-> @.downloaded + 1,
                          incomplete |-> IF @.incomplete > 0
                                         THEN @.incomplete - 1 ELSE 0]]
  ELSE T

\* get_announce_stats(ih) -> (complete, incomplete).
get_announce_stats(T, ih) ==
  IF ih \in DOMAIN T THEN <<T[ih].complete, T[ih].incomplete>> ELSE <<0, 0>>

\* get_scrapes(info_hashes): one ScrapeFile per requested hash that has a
\* record, in request order; absent hashes are omitted.
RECURSIVE get_scrapes(_, _)
get_scrapes(T, info_hashes) ==
  IF info_hashes = <<>> THEN <<>>
  ELSE LET ih == Head(info_hashes)
           rest == get_scrapes(T, Tail(info_hashes))
       IN IF ih \in DOMAIN T
          THEN <<[info_hash |-> ih, complete |-> T[ih].complete,
                  downloaded |-> T[ih].downloaded,
                  incomplete |-> T[ih].incomplete]>> \o rest
          ELSE rest

\* ---------------------------------------------------- global statistics
NoStats == [seeders |-> 0, leechers |-> 0, announces_ok |-> 0,
            announces_fail |-> 0, scrapes |-> 0, promotions |-> 0]

Dec(n) == IF n > 0 THEN n - 1 ELSE 0

add_leech(S) == [S EXCEPT !.leechers = @ + 1]
sub_leech(S) == [S EXCEPT !.leechers = Dec(@)]
sub_seed(S) == [S EXCEPT !.seeders = Dec(@)]
promote_leech(S) == [S EXCEPT !.promotions = @ + 1]
succ_announce(S) == [S EXCEPT !.announces_ok = @ + 1]
fail_announce(S) == [S EXCEPT !.announces_fail = @ + 1]
incr_scrapes(S) == [S EXCEPT !.scrapes = @ + 1]

\* ------------------------------------------------------------ state
VARIABLES
  records,        \* peer_store.records: info_hash -> swarm
  torrents,       \* torrent_store.torrents: info_hash -> record
  stats,          \* the global statistics
  statsLock,      \* the handler holding the statistics write guard
  pc,             \* each handler's position
  kind,           \* "announce" | "scrape" | "" per handler
  query,          \* the key/value pairs of the handler's query string
  numwant,        \* parsed_req.numwant
  born,           \* last_announced.elapsed() of the request's peer
  resp,           \* the response the handler has built so far
  rpc,            \* the reaper's position
  rqueue,         \* the reaper's snapshot of info-hashes still to visit
  seeds_reaped,
  leeches_reaped,
  rvisited,       \* the swarms the reaper's loop has been through in this pass
  peer_timeout,   \* Reaper.peer_timeout, in the unit of elapsed()
  interleaved,    \* a handler changed the peer store after the first swarm of the pass
  nreq,           \* requests accepted so far
  hist,           \* sequential runs only: every request with the stores before it
  arg,            \* the argument a function is applied to
  ret,            \* what it returned
  heard           \* per peer held: the age of its last announce, and of its last started or none

vars == <<records, torrents, stats, statsLock, pc, kind, query, numwant, born,
          resp, rpc, rqueue, seeds_reaped, leeches_reaped, rvisited, peer_timeout,
          interleaved, nreq, hist, arg, ret, heard>>

storeVars == <<records, torrents, stats, statsLock>>
reaperVars == <<rpc, rqueue, seeds_reaped, leeches_reaped, rvisited, peer_timeout>>
fnVars == <<arg, ret>>

\* ----------------------------------------------------------- queries
\* A client's announce: the protocol's keys, and the key `peer` that
\* AnnounceRequest::new reads the peer from.
Announce(ih, p, ev) ==
  <<(<<"info_hash", ih>>), (<<"peer_id", p>>), (<<"peer", p>>), (<<"port", "6881">>),
    (<<"uploaded", "0">>), (<<"downloaded", "0">>), (<<"left", "1">>),
    (<<"event", ev>>)>>

EventStrings == {"started", "stopped", "completed", ""}

BadAnnounces ==
  {<<(<<"bad_stuff", "123">>)>>,
   [Announce("A", "p1", "started") EXCEPT ![4] = <<"port", "thisisnotanumber">>]}

AnnounceQueries ==
  {Announce(ih, p, ev) : ih \in InfoHashes, p \in PeerIds, ev \in EventStrings}
  \cup BadAnnounces

\* The scrape queries the handlers are sent: every order of one and two
\* info-hashes, a repeated one, and a key that is not info_hash in each place.
ScrapeQueries ==
  {<<>>,
   <<(<<"info_hash", "A">>)>>,
   <<(<<"info_hash", "A">>), (<<"info_hash", "B">>)>>,
   <<(<<"info_hash", "B">>), (<<"info_hash", "A">>)>>,
   <<(<<"info_hash", "A">>), (<<"info_hash", "A">>)>>,
   <<(<<"info_bash", "B">>)>>,
   <<(<<"info_hash", "A">>), (<<"info_bash", "B">>)>>,
   <<(<<"info_bash", "B">>), (<<"info_hash", "A">>)>>}

Req(h) == AnnounceRequest_new(query[h])

NoArg == [fn |-> ""]

\* The state after construction, the reaper built with peer_timeout t.
Start(t) ==
  /\ records = Empty
  /\ torrents = Empty
  /\ stats = NoStats
  /\ statsLock = NoHolder
  /\ pc = [h \in Handlers |-> "idle"]
  /\ kind = [h \in Handlers |-> ""]
  /\ query = [h \in Handlers |-> <<>>]
  /\ numwant = [h \in Handlers |-> 0]
  /\ born = [h \in Handlers |-> 0]
  /\ resp = [h \in Handlers |-> DefaultResponse]
  /\ rpc = "idle"
  /\ rqueue = <<>>
  /\ seeds_reaped = 0
  /\ leeches_reaped = 0
  /\ rvisited = 0
  /\ peer_timeout = t
  /\ interleaved = FALSE
  /\ heard = Empty
  /\ nreq = 0
  /\ hist = <<>>

Init == Start(PeerTimeout) /\ arg = NoArg /\ ret = NoArg

\* The reaper's pass has been through its first swarm and is not over.
MidScan == rpc = "scan" /\ rvisited >= 1

\* The (info-hash, peer) pairs a peer store holds.
Pairs(R) == {x \in (DOMAIN R) \X PeerIds : x[2] \in SwarmPeers(R, x[1])}

\* What has been heard of the peers that are still held.
Kept(H, R) == [x \in Pairs(R) \cap DOMAIN H |-> H[x]]

\* What has been heard once handler h's call has left the peer store as R:
\* the request's Peer was built when the request was parsed, born[h] ago; a
\* started, completed or none announce of a peer that is held is its last
\* announce, a started or none one is its last started or none as well.
HeardAfter(h, R) ==
  LET x == <<Req(h).info_hash, Req(h).peer>>
      ev == Req(h).event
  IN [y \in Pairs(R) |->
        IF y = x /\ ev # "Stopped"
        THEN [any |-> born[h],
              sn |-> IF ev = "Completed" /\ y \in DOMAIN heard
                     THEN heard[y].sn ELSE born[h]]
        ELSE heard[y]]

\* A request is served by the first handler that is free.
FreeSlot(h) == pc[h] = "idle" /\ (h = "h1" \/ pc["h1"] # "idle")

\* ------------------------------------------------- the announce handler
\* parse_announce up to its first await: the request is parsed and the match
\* on the result and on the event picks the branch.
FirstStep(r) ==
  IF ~r.ok THEN "fail_announce"
  ELSE CASE r.event = "Started" -> "put_leecher"
         [] r.event = "Stopped" -> "stats_write_stopped"
         [] r.event = "Completed" -> "promote_leecher"
         [] OTHER -> "update_peer"

AcceptAnnounce(h, q, nw) ==
  /\ query' = [query EXCEPT ![h] = q]
  /\ numwant' = [numwant EXCEPT ![h] = nw]
  /\ pc' = [pc EXCEPT ![h] = FirstStep(AnnounceRequest_new(q))]
  /\ kind' = [kind EXCEPT ![h] = "announce"]
  /\ born' = [born EXCEPT ![h] = 0]
  /\ resp' = [resp EXCEPT ![h] = DefaultResponse]
  /\ nreq' = nreq + 1
  /\ UNCHANGED <<storeVars, reaperVars>>

ReceiveAnnounce(h) ==
  /\ FreeSlot(h)
  /\ nreq < MaxRequests
  /\ \E q \in AnnounceQueries, nw \in NumWants : AcceptAnnounce(h, q, nw)
  /\ UNCHANGED <<hist, fnVars, interleaved, heard>>

\* Event::Started
StartedPutLeecher(h) ==
  /\ pc[h] = "put_leecher"
  /\ records' = put_leecher(records, Req(h).info_hash, Req(h).peer, born[h])
  /\ pc' = [pc EXCEPT ![h] = "new_leech"]
  /\ UNCHANGED <<torrents, stats, statsLock, kind, query, numwant, born, resp,
                 reaperVars, nreq, hist, fnVars>>
  /\ interleaved' = (interleaved \/ (MidScan /\ records' # records))
  /\ heard' = HeardAfter(h, records')

StartedNewLeech(h) ==
  /\ pc[h] = "new_leech"
  /\ torrents' = new_leech(torrents, Req(h).info_hash)
  /\ pc' = [pc EXCEPT ![h] = "get_peers"]
  /\ UNCHANGED <<records, stats, statsLock, kind, query, numwant, born, resp,
                 reaperVars, nreq, hist, fnVars, interleaved, heard>>

\* Event::Stopped: the statistics write guard is taken first and held to the
\* end of the branch.
StoppedStatsWrite(h) ==
  /\ pc[h] = "stats_write_stopped"
  /\ statsLock = NoHolder
  /\ statsLock' = h
  /\ pc' = [pc EXCEPT ![h] = "remove_seeder"]
  /\ UNCHANGED <<records, torrents, stats, kind, query, numwant, born, resp,
                 reaperVars, nreq, hist, fnVars, interleaved, heard>>

\* succ_announce reached only when no seeder was removed.
StoppedRemoveSeeder_nosucc(h) ==
  /\ pc[h] = "remove_seeder"
  /\ LET r == remove_seeder(records, Req(h).info_hash, Req(h).peer)
     IN /\ records' = r.store
        /\ IF r.removed
           THEN /\ stats' = sub_seed(stats)
                /\ pc' = [pc EXCEPT ![h] = "get_peers"]
           ELSE /\ stats' = stats
                /\ pc' = [pc EXCEPT ![h] = "remove_leecher"]
  /\ UNCHANGED <<torrents, statsLock, kind, query, numwant, born, resp,
                 reaperVars, nreq, hist, fnVars>>
  /\ interleaved' = (interleaved \/ (MidScan /\ records' # records))
  /\ heard' = HeardAfter(h, records')

StoppedRemoveSeeder(h) ==
  /\ pc[h] = "remove_seeder"
  /\ LET r == remove_seeder(records, Req(h).info_hash, Req(h).peer)
     IN /\ records' = r.store
        /\ IF r.removed
           THEN /\ stats' = succ_announce(sub_seed(stats))
                /\ pc' = [pc EXCEPT ![h] = "get_peers"]
           ELSE /\ stats' = stats
                /\ pc' = [pc EXCEPT ![h] = "remove_leecher"]
  /\ UNCHANGED <<torrents, statsLock, kind, query, numwant, born, resp,
                 reaperVars, nreq, hist, fnVars>>
  /\ interleaved' = (interleaved \/ (MidScan /\ records' # records))
  /\ heard' = HeardAfter(h, records')

\* sub_leech and succ_announce through a second data.stats.write().await,
\* asked for while the branch's own guard is held.
StoppedRemoveLeecher_relock(h) ==
  /\ pc[h] = "remove_leecher"
  /\ statsLock = NoHolder
  /\ records' = remove_leecher(records, Req(h).info_hash, Req(h).peer).store
  /\ stats' = succ_announce(sub_leech(stats))
  /\ pc' = [pc EXCEPT ![h] = "get_peers"]
  /\ UNCHANGED <<torrents, statsLock, kind, query, numwant, born, resp,
                 reaperVars, nreq, hist, fnVars>>
  /\ interleaved' = (interleaved \/ (MidScan /\ records' # records))
  /\ heard' = HeardAfter(h, records')

StoppedRemoveLeecher(h) ==
  /\ pc[h] = "remove_leecher"
  /\ records' = remove_leecher(records, Req(h).info_hash, Req(h).peer).store
  /\ stats' = succ_announce(sub_leech(stats))
  /\ pc' = [pc EXCEPT ![h] = "get_peers"]
  /\ UNCHANGED <<torrents, statsLock, kind, query, numwant, born, resp,
                 reaperVars, nreq, hist, fnVars>>
  /\ interleaved' = (interleaved \/ (MidScan /\ records' # records))
  /\ heard' = HeardAfter(h, records')

\* Event::Completed
CompletedPromoteLeecher(h) ==
  /\ pc[h] = "promote_leecher"
  /\ records' = promote_leecher(records, Req(h).info_hash, Req(h).peer)
  /\ pc' = [pc EXCEPT ![h] = "new_seed"]
  /\ UNCHANGED <<torrents, stats, statsLock, kind, query, numwant, born, resp,
                 reaperVars, nreq, hist, fnVars>>
  /\ interleaved' = (interleaved \/ (MidScan /\ records' # records))
  /\ heard' = HeardAfter(h, records')

CompletedNewSeed(h) ==
  /\ pc[h] = "new_seed"
  /\ torrents' = new_seed(torrents, Req(h).info_hash)
  /\ pc' = [pc EXCEPT ![h] = "get_peers"]
  /\ UNCHANGED <<records, stats, statsLock, kind, query, numwant, born, resp,
                 reaperVars, nreq, hist, fnVars, interleaved, heard>>

\* The none branch adding the peer as the started branch does.
NoneUpdatePeer_puts(h) ==
  /\ pc[h] = "update_peer"
  /\ records' = put_leecher(records, Req(h).info_hash, Req(h).peer, born[h])
  /\ pc' = [pc EXCEPT ![h] = "get_peers"]
  /\ UNCHANGED <<torrents, stats, statsLock, kind, query, numwant, born, resp,
                 reaperVars, nreq, hist, fnVars>>
  /\ interleaved' = (interleaved \/ (MidScan /\ records' # records))
  /\ heard' = HeardAfter(h, records')

\* Event::None
NoneUpdatePeer(h) ==
  /\ pc[h] = "update_peer"
  /\ records' = update_peer(records, Req(h).info_hash, Req(h).peer, born[h])
  /\ pc' = [pc EXCEPT ![h] = "get_peers"]
  /\ UNCHANGED <<torrents, stats, statsLock, kind, query, numwant, born, resp,
                 reaperVars, nreq, hist, fnVars>>
  /\ interleaved' = (interleaved \/ (MidScan /\ records' # records))
  /\ heard' = HeardAfter(h, records')

\* Every branch: the randomized peer list, split by address family.
GetPeers(h) ==
  /\ pc[h] = "get_peers"
  /\ \E sample \in get_peers(records, Req(h).info_hash, numwant[h]) :
       resp' = [resp EXCEPT ![h].peers = {p \in sample : PeerFamily(p) = "V4"},
                            ![h].peers6 = {p \in sample : PeerFamily(p) = "V6"}]
  /\ pc' = [pc EXCEPT ![h] = "get_announce_stats"]
  /\ UNCHANGED <<storeVars, kind, query, numwant, born, reaperVars, nreq, hist, fnVars, interleaved, heard>>

\* Every branch: the counters, and AnnounceResponse::new.  The stopped branch
\* has already counted the announce and ends here, dropping its guard.
GetAnnounceStats(h) ==
  /\ pc[h] = "get_announce_stats"
  /\ LET cs == get_announce_stats(torrents, Req(h).info_hash)
     IN resp' = [resp EXCEPT ![h] = AnnounceResponse_new(
                   AnnounceRate, cs[1], cs[2], resp[h].peers, resp[h].peers6)]
  /\ IF Req(h).event = "Stopped"
     THEN /\ statsLock' = NoHolder
          /\ pc' = [pc EXCEPT ![h] = "done"]
     ELSE /\ statsLock' = statsLock
          /\ pc' = [pc EXCEPT ![h] = "stats_write"]
  /\ UNCHANGED <<records, torrents, stats, kind, query, numwant, born,
                 reaperVars, nreq, hist, fnVars, interleaved, heard>>

\* The completed branch taking the promoted peer off the leechers total.
StatsWrite_subs(h) ==
  /\ pc[h] = "stats_write"
  /\ statsLock = NoHolder
  /\ stats' = CASE Req(h).event = "Started" -> succ_announce(add_leech(stats))
                [] Req(h).event = "Completed" ->
                     succ_announce(promote_leech(sub_leech(stats)))
                [] OTHER -> succ_announce(stats)
  /\ pc' = [pc EXCEPT ![h] = "done"]
  /\ UNCHANGED <<records, torrents, statsLock, kind, query, numwant, born, resp,
                 reaperVars, nreq, hist, fnVars, interleaved, heard>>

\* The statistics of the started, completed and none branches.
StatsWrite(h) ==
  /\ pc[h] = "stats_write"
  /\ statsLock = NoHolder
  /\ stats' = CASE Req(h).event = "Started" -> succ_announce(add_leech(stats))
                [] Req(h).event = "Completed" -> succ_announce(promote_leech(stats))
                [] OTHER -> succ_announce(stats)
  /\ pc' = [pc EXCEPT ![h] = "done"]
  /\ UNCHANGED <<records, torrents, statsLock, kind, query, numwant, born, resp,
                 reaperVars, nreq, hist, fnVars, interleaved, heard>>

\* The Err branch counting the announce as a success.
FailAnnounce_succ(h) ==
  /\ pc[h] = "fail_announce"
  /\ statsLock = NoHolder
  /\ resp' = [resp EXCEPT ![h] = AnnounceResponse_fail(Req(h).err)]
  /\ stats' = succ_announce(stats)
  /\ pc' = [pc EXCEPT ![h] = "done"]
  /\ UNCHANGED <<records, torrents, statsLock, kind, query, numwant, born,
                 reaperVars, nreq, hist, fnVars, interleaved, heard>>

\* Err(failure): the request did not parse.
FailAnnounce(h) ==
  /\ pc[h] = "fail_announce"
  /\ statsLock = NoHolder
  /\ resp' = [resp EXCEPT ![h] = AnnounceResponse_fail(Req(h).err)]
  /\ stats' = fail_announce(stats)
  /\ pc' = [pc EXCEPT ![h] = "done"]
  /\ UNCHANGED <<records, torrents, statsLock, kind, query, numwant, born,
                 reaperVars, nreq, hist, fnVars, interleaved, heard>>

\* --------------------------------------------------- the scrape handler
\* parse_scrape up to its first await.  A request that does not parse is
\* answered at once.
AcceptScrape(h, q) ==
  /\ query' = [query EXCEPT ![h] = q]
  /\ IF ScrapeRequest_new(q).ok
     THEN /\ pc' = [pc EXCEPT ![h] = "get_scrapes"]
          /\ resp' = [resp EXCEPT ![h] = DefaultResponse]
     ELSE /\ pc' = [pc EXCEPT ![h] = "done"]
          /\ resp' = [resp EXCEPT ![h] =
                        AnnounceResponse_fail(ScrapeRequest_new(q).err)]
  /\ kind' = [kind EXCEPT ![h] = "scrape"]
  /\ nreq' = nreq + 1
  /\ UNCHANGED <<storeVars, numwant, born, reaperVars>>

ReceiveScrape(h) ==
  /\ FreeSlot(h)
  /\ nreq < MaxRequests
  /\ \E q \in ScrapeQueries : AcceptScrape(h, q)
  /\ UNCHANGED <<hist, fnVars, interleaved, heard>>

\* The handler adding only the first file returned.
ScrapeGetScrapes_first(h) ==
  /\ pc[h] = "get_scrapes"
  /\ LET fs == get_scrapes(torrents, ScrapeRequest_new(query[h]).info_hashes)
     IN resp' = [resp EXCEPT ![h].files = IF fs = <<>> THEN fs ELSE <<fs[1]>>]
  /\ pc' = [pc EXCEPT ![h] = "incr_scrapes"]
  /\ UNCHANGED <<storeVars, kind, query, numwant, born, reaperVars, nreq, hist, fnVars, interleaved, heard>>

\* get_scrapes, then add_file for each file returned.
ScrapeGetScrapes(h) ==
  /\ pc[h] = "get_scrapes"
  /\ resp' = [resp EXCEPT ![h].files =
                get_scrapes(torrents, ScrapeRequest_new(query[h]).info_hashes)]
  /\ pc' = [pc EXCEPT ![h] = "incr_scrapes"]
  /\ UNCHANGED <<storeVars, kind, query, numwant, born, reaperVars, nreq, hist, fnVars, interleaved, heard>>

ScrapeIncrScrapes(h) ==
  /\ pc[h] = "incr_scrapes"
  /\ statsLock = NoHolder
  /\ stats' = incr_scrapes(stats)
  /\ pc' = [pc EXCEPT ![h] = "done"]
  /\ UNCHANGED <<records, torrents, statsLock, kind, query, numwant, born, resp,
                 reaperVars, nreq, hist, fnVars, interleaved, heard>>

\* The response is returned and the handler's task ends.
Close(h) ==
  /\ pc[h] = "done"
  /\ pc' = [pc EXCEPT ![h] = "idle"]
  /\ kind' = [kind EXCEPT ![h] = ""]
  /\ query' = [query EXCEPT ![h] = <<>>]
  /\ numwant' = [numwant EXCEPT ![h] = 0]
  /\ born' = [born EXCEPT ![h] = 0]
  /\ resp' = [resp EXCEPT ![h] = DefaultResponse]
  /\ UNCHANGED <<storeVars, reaperVars, nreq, hist, fnVars, interleaved, heard>>

\* ----------------------------------------------------------- the reaper
\* The orders in which a map's keys may be iterated.
Orders(S) == {q \in [1..Cardinality(S) -> S] : \A i, j \in DOMAIN q : i # j => q[i] # q[j]}

\* The comparison taken as inclusive.
Fresh_inclusive(elapsed) == elapsed <= peer_timeout

\* p.last_announced.elapsed() < self2.peer_timeout
Fresh(elapsed) == elapsed < peer_timeout

\* The peers kept are stamped anew.
Retain_refresh(set) == [p \in {x \in DOMAIN set : Fresh(set[x])} |-> 0]

Retain(set) == [p \in {x \in DOMAIN set : Fresh(set[x])} |-> set[p]]

\* The write lock taken once for the whole scan: every swarm is filtered in
\* the step that collects the info-hashes.
ReapStart_whole ==
  /\ rpc = "idle"
  /\ records' = [ih \in DOMAIN records |->
                   [seeders |-> Retain(records[ih].seeders),
                    leechers |-> Retain(records[ih].leechers)]]
  /\ rqueue' = <<>>
  /\ seeds_reaped' = 0
  /\ leeches_reaped' = 0
  /\ rvisited' = 0
  /\ interleaved' = FALSE
  /\ heard' = Kept(heard, records')
  /\ rpc' = "scan"
  /\ UNCHANGED <<torrents, stats, statsLock, pc, kind, query, numwant, born, resp,
                 peer_timeout, nreq, hist, fnVars>>

\* reap_peers: the info-hashes are collected under the read lock.
ReapStart ==
  /\ rpc = "idle"
  /\ rqueue' \in Orders(DOMAIN records)
  /\ seeds_reaped' = 0
  /\ leeches_reaped' = 0
  /\ rvisited' = 0
  /\ interleaved' = FALSE
  /\ heard' = heard
  /\ rpc' = "scan"
  /\ UNCHANGED <<storeVars, pc, kind, query, numwant, born, resp, peer_timeout,
                 nreq, hist, fnVars>>

Stale(set) == {p \in DOMAIN set : set[p] >= peer_timeout}

\* The retains' comparison turned round: the peers kept are those of age
\* peer_timeout or more.
ReapSwarm_stale ==
  /\ rpc = "scan"
  /\ rqueue # <<>>
  /\ LET ih == Head(rqueue)
     IN IF ih \in DOMAIN records
        THEN LET seeders == [p \in Stale(records[ih].seeders) |-> records[ih].seeders[p]]
                 leechers == [p \in Stale(records[ih].leechers) |-> records[ih].leechers[p]]
             IN /\ records' = [records EXCEPT ![ih] =
                                 [seeders |-> seeders, leechers |-> leechers]]
                /\ seeds_reaped' = seeds_reaped +
                     Cardinality(DOMAIN records[ih].seeders) - Cardinality(DOMAIN seeders)
                /\ leeches_reaped' = leeches_reaped +
                     Cardinality(DOMAIN records[ih].leechers) - Cardinality(DOMAIN leechers)
        ELSE UNCHANGED <<records, seeds_reaped, leeches_reaped>>
  /\ rqueue' = Tail(rqueue)
  /\ rvisited' = rvisited + 1
  /\ UNCHANGED <<torrents, stats, statsLock, pc, kind, query, numwant, born, resp,
                 rpc, peer_timeout, nreq, hist, fnVars, interleaved>>
  /\ heard' = Kept(heard, records')

\* One iteration of the loop: the write lock, get_mut, the two retains.
ReapSwarm ==
  /\ rpc = "scan"
  /\ rqueue # <<>>
  /\ LET ih == Head(rqueue)
     IN IF ih \in DOMAIN records
        THEN LET seeders == Retain(records[ih].seeders)
                 leechers == Retain(records[ih].leechers)
             IN /\ records' = [records EXCEPT ![ih] =
                                 [seeders |-> seeders, leechers |-> leechers]]
                /\ seeds_reaped' = seeds_reaped +
                     Cardinality(DOMAIN records[ih].seeders) - Cardinality(DOMAIN seeders)
                /\ leeches_reaped' = leeches_reaped +
                     Cardinality(DOMAIN records[ih].leechers) - Cardinality(DOMAIN leechers)
        ELSE UNCHANGED <<records, seeds_reaped, leeches_reaped>>
  /\ rqueue' = Tail(rqueue)
  /\ rvisited' = rvisited + 1
  /\ UNCHANGED <<torrents, stats, statsLock, pc, kind, query, numwant, born, resp,
                 rpc, peer_timeout, nreq, hist, fnVars, interleaved>>
  /\ heard' = Kept(heard, records')

\* The loop is over: the totals are logged and the task ends.
ReapDone ==
  /\ rpc = "scan"
  /\ rqueue = <<>>
  /\ rpc' = "idle"
  /\ seeds_reaped' = 0
  /\ leeches_reaped' = 0
  /\ rvisited' = 0
  /\ interleaved' = FALSE
  /\ heard' = heard
  /\ UNCHANGED <<storeVars, pc, kind, query, numwant, born, resp, rqueue,
                 peer_timeout, nreq, hist, fnVars>>

\* Time passes: a tick for every peer held and every peer under way.
Older(elapsed) == IF elapsed < peer_timeout THEN elapsed + 1 ELSE elapsed

Tick ==
  /\ records' = [ih \in DOMAIN records |->
                   [seeders |-> [p \in DOMAIN records[ih].seeders |->
                                   Older(records[ih].seeders[p])],
                    leechers |-> [p \in DOMAIN records[ih].leechers |->
                                    Older(records[ih].leechers[p])]]]
  /\ born' = [h \in Handlers |->
                IF kind[h] = "announce" /\ pc[h] # "done" THEN Older(born[h]) ELSE born[h]]
  /\ UNCHANGED <<torrents, stats, statsLock, pc, kind, query, numwant, resp,
                 reaperVars, nreq, hist, fnVars, interleaved>>
  /\ heard' = [x \in DOMAIN heard |->
                [any |-> Older(heard[x].any), sn |-> Older(heard[x].sn)]]

\* ------------------------------------------------------- specifications
AnnounceStep(h) ==
  \/ StartedPutLeecher(h)
  \/ StartedNewLeech(h)
  \/ StoppedStatsWrite(h)
  \/ StoppedRemoveSeeder(h)
  \/ StoppedRemoveLeecher(h)
  \/ CompletedPromoteLeecher(h)
  \/ CompletedNewSeed(h)
  \/ NoneUpdatePeer(h)
  \/ GetPeers(h)
  \/ GetAnnounceStats(h)
  \/ StatsWrite(h)
  \/ FailAnnounce(h)

Next ==
  \/ \E h \in Handlers :
       \/ ReceiveAnnounce(h)
       \/ AnnounceStep(h)
       \/ ReceiveScrape(h)
       \/ ScrapeGetScrapes(h)
       \/ ScrapeIncrScrapes(h)
       \/ Close(h)
  \/ ReapStart
  \/ ReapSwarm
  \/ ReapDone
  \/ Tick

Spec == Init /\ [][Next]_vars

Quiescent == (\A h \in Handlers : pc[h] \in {"idle", "done"}) /\ rpc = "idle"

\* Requests served one after another by one handler, the reaper at rest: each
\* is accepted when the one before has been answered, and hist keeps it with
\* the stores it found.
AllIdle == \A h \in Handlers : pc[h] = "idle"

Entry(k, q) == [kind |-> k, query |-> q, torrents |-> torrents, records |-> records]

SeqReceiveAnnounce ==
  /\ AllIdle
  /\ nreq < MaxSeqRequests
  /\ \E q \in AnnounceQueries, nw \in NumWants :
       /\ AcceptAnnounce("h1", q, nw)
       /\ hist' = Append(hist, Entry("announce", q))
       /\ UNCHANGED <<fnVars, interleaved, heard>>

SeqReceiveScrape ==
  /\ AllIdle
  /\ nreq < MaxSeqRequests
  /\ \E q \in ScrapeQueries :
       /\ AcceptScrape("h1", q)
       /\ hist' = Append(hist, Entry("scrape", q))
       /\ UNCHANGED <<fnVars, interleaved, heard>>

SeqNext ==
  \/ SeqReceiveAnnounce
  \/ SeqReceiveScrape
  \/ AnnounceStep("h1")
  \/ ScrapeGetScrapes("h1")
  \/ ScrapeIncrScrapes("h1")
  \/ Close("h1")

SpecSeq == Init /\ [][SeqNext]_vars

\* Announces served by one handler while the reaper, built with any of the
\* timeouts, makes its passes and time goes by.
ReapQueries ==
  {Announce(ih, p, ev) : ih \in InfoHashes, p \in PeerIds,
                         ev \in {"started", "completed"}}

InitReap == (\E t \in PeerTimeouts : Start(t)) /\ arg = NoArg /\ ret = NoArg

ReapReceiveAnnounce ==
  /\ AllIdle
  /\ nreq < MaxReapRequests
  /\ \E q \in ReapQueries, nw \in NumWants : AcceptAnnounce("h1", q, nw)
  /\ UNCHANGED <<hist, fnVars, interleaved, heard>>

ReapNext ==
  \/ ReapReceiveAnnounce
  \/ StartedPutLeecher("h1")
  \/ StartedNewLeech("h1")
  \/ CompletedPromoteLeecher("h1")
  \/ CompletedNewSeed("h1")
  \/ GetPeers("h1")
  \/ GetAnnounceStats("h1")
  \/ StatsWrite("h1")
  \/ Close("h1")
  \/ ReapStart
  \/ ReapSwarm
  \/ ReapDone
  \/ Tick

SpecReap == InitReap /\ [][ReapNext]_vars

\* The peer store lets go of a swarm that has no peer left (section 3: an
\* empty swarm may be kept or discarded); a later started creates it anew.
ForgetSwarm ==
  /\ \E ih \in DOMAIN records :
       /\ records[ih] = EmptySwarm
       /\ records' = Remove(records, ih)
  /\ interleaved' = (interleaved \/ MidScan)
  /\ heard' = heard
  /\ UNCHANGED <<torrents, stats, statsLock, pc, kind, query, numwant, born, resp,
                 reaperVars, nreq, hist, fnVars>>

SweepNext == ReapNext \/ ForgetSwarm

SpecSweep == InitReap /\ [][SweepNext]_vars

\* Announces of every event for one info-hash, served one after another,
\* beside the reaper and the clock.
AgeQueries == {Announce("A", p, ev) : p \in PeerIds, ev \in EventStrings}

AgeReceiveAnnounce ==
  /\ AllIdle
  /\ nreq < MaxAgeRequests
  /\ \E q \in AgeQueries, nw \in NumWants : AcceptAnnounce("h1", q, nw)
  /\ UNCHANGED <<hist, fnVars, interleaved, heard>>

AgeNext ==
  \/ AgeReceiveAnnounce
  \/ StartedPutLeecher("h1")
  \/ StartedNewLeech("h1")
  \/ StoppedStatsWrite("h1")
  \/ StoppedRemoveSeeder("h1")
  \/ StoppedRemoveLeecher("h1")
  \/ CompletedPromoteLeecher("h1")
  \/ CompletedNewSeed("h1")
  \/ NoneUpdatePeer("h1")
  \/ GetPeers("h1")
  \/ GetAnnounceStats("h1")
  \/ StatsWrite("h1")
  \/ Close("h1")
  \/ ReapStart
  \/ ReapSwarm
  \/ ReapDone
  \/ Tick

SpecAge == InitReap /\ [][AgeNext]_vars

\* The reaper run every interval (run_interval), its passes and the clock
\* going on whatever the handlers do; the announces are those of one swarm.
EvictQueries ==
  {Announce("A", p, ev) : p \in PeerIds, ev \in {"started", "completed", ""}}

EvictReceiveAnnounce ==
  /\ AllIdle
  /\ nreq < MaxEvictRequests
  /\ \E q \in EvictQueries, nw \in NumWants : AcceptAnnounce("h1", q, nw)
  /\ UNCHANGED <<hist, fnVars, interleaved, heard>>

EvictNext ==
  \/ EvictReceiveAnnounce
  \/ StartedPutLeecher("h1")
  \/ StartedNewLeech("h1")
  \/ CompletedPromoteLeecher("h1")
  \/ CompletedNewSeed("h1")
  \/ NoneUpdatePeer("h1")
  \/ GetPeers("h1")
  \/ GetAnnounceStats("h1")
  \/ StatsWrite("h1")
  \/ Close("h1")
  \/ ReapStart
  \/ ReapSwarm
  \/ ReapDone
  \/ Tick

ReaperFairness ==
  /\ WF_vars(ReapStart)
  /\ WF_vars(ReapSwarm)
  /\ WF_vars(ReapDone)
  /\ WF_vars(Tick)

SpecEvict == Init /\ [][EvictNext]_vars /\ ReaperFairness

\* The client of an announce goes away while its handler waits at an await:
\* the handler's future is dropped where it stands, and with it the
\* statistics' write guard if it holds it; what it has written stays.
Drop(h) ==
  /\ kind[h] = "announce"
  /\ pc[h] \notin {"idle", "done", "dropped"}
  /\ pc' = [pc EXCEPT ![h] = "dropped"]
  /\ statsLock' = IF statsLock = h THEN NoHolder ELSE statsLock
  /\ UNCHANGED <<records, torrents, stats, kind, query, numwant, born, resp,
                 reaperVars, nreq, hist, fnVars, interleaved, heard>>

DropNext == Next \/ \E h \in Handlers : Drop(h)

SpecDrop == Init /\ [][DropNext]_vars

\* Every handler, the statistics handler among them, beside the reaper, each
\* task scheduled again and again until it ends.
LiveAnnounceQueries ==
  {Announce("A", "p1", ev) : ev \in EventStrings}
  \cup {[Announce("A", "p1", "started") EXCEPT ![4] = <<"port", "thisisnotanumber">>]}

LiveScrapeQueries ==
  {<<(<<"info_hash", "A">>)>>, <<(<<"info_bash", "B">>)>>}

LiveReceiveAnnounce(h) ==
  /\ FreeSlot(h)
  /\ nreq < MaxLiveRequests
  /\ \E q \in LiveAnnounceQueries, nw \in NumWants : AcceptAnnounce(h, q, nw)
  /\ UNCHANGED <<hist, fnVars, interleaved, heard>>

LiveReceiveScrape(h) ==
  /\ FreeSlot(h)
  /\ nreq < MaxLiveRequests
  /\ \E q \in LiveScrapeQueries : AcceptScrape(h, q)
  /\ UNCHANGED <<hist, fnVars, interleaved, heard>>

\* get_stats up to its await.
ReceiveStats(h) ==
  /\ FreeSlot(h)
  /\ nreq < MaxLiveRequests
  /\ kind' = [kind EXCEPT ![h] = "stats"]
  /\ pc' = [pc EXCEPT ![h] = "stats_read"]
  /\ nreq' = nreq + 1
  /\ UNCHANGED <<storeVars, query, numwant, born, resp, reaperVars, hist, fnVars,
                 interleaved, heard>>

\* data.stats.read().await, then the statistics are returned as JSON.
StatsRead(h) ==
  /\ pc[h] = "stats_read"
  /\ statsLock = NoHolder
  /\ resp' = [resp EXCEPT ![h] = [stats |-> stats]]
  /\ pc' = [pc EXCEPT ![h] = "done"]
  /\ UNCHANGED <<storeVars, kind, query, numwant, born, reaperVars, nreq, hist,
                 fnVars, interleaved, heard>>

HandlerStep(h) ==
  \/ AnnounceStep(h)
  \/ ScrapeGetScrapes(h)
  \/ ScrapeIncrScrapes(h)
  \/ StatsRead(h)
  \/ Close(h)

LiveNext ==
  \/ \E h \in Handlers :
       \/ LiveReceiveAnnounce(h)
       \/ LiveReceiveScrape(h)
       \/ ReceiveStats(h)
       \/ HandlerStep(h)
  \/ ReapStart
  \/ ReapSwarm
  \/ ReapDone

\* The runtime polls every task that can go on, and the locks are granted
\* in the order they were asked for.
Fairness ==
  /\ \A h \in Handlers : WF_vars(HandlerStep(h))
  /\ WF_vars(ReapSwarm)
  /\ WF_vars(ReapDone)

SpecLive == Init /\ [][LiveNext]_vars /\ Fairness

\* The functions of bittorrent.rs applied to one argument.
Octets == {0, 1, 127, 255}
Ports == {0, 1, 255, 256, 6681, 65535}

Ipv4Addrs == [1..4 -> Octets]

\* 2001:db8:85a3::8a2e:370:7334, ::, ::1, ff..ff, and 255 in each place.
Ipv6Addrs ==
  {<<32, 1, 13, 184, 133, 163, 0, 0, 0, 0, 138, 46, 3, 112, 115, 52>>,
   [i \in 1..16 |-> 0],
   [i \in 1..16 |-> IF i = 16 THEN 1 ELSE 0],
   [i \in 1..16 |-> 255]}
  \cup {[i \in 1..16 |-> IF i = k THEN 255 ELSE 0] : k \in 1..16}

FnArgs ==
  {[fn |-> "Peerv4::compact", peer |-> [ip |-> a, port |-> n]] :
     a \in Ipv4Addrs, n \in Ports}
  \cup {[fn |-> "Peerv6::compact", peer |-> [ip |-> a, port |-> n]] :
          a \in Ipv6Addrs, n \in Ports}

EventInputs == {"started", "stopped", "completed", "", "garbage", "STARTED", "start"}

EventArgs ==
  {[fn |-> "string_to_event", s |-> s] : s \in EventInputs}
  \cup {[fn |-> "AnnounceRequest::new", info_hash |-> ih, peer |-> p, event |-> s] :
          ih \in InfoHashes, p \in PeerIds, s \in EventInputs}

progVars == <<storeVars, pc, kind, query, numwant, born, resp, reaperVars,
              interleaved, nreq, hist, heard>>

InitFn == Start(PeerTimeout) /\ arg \in FnArgs \cup EventArgs /\ ret = NoArg

CallPeerv4Compact ==
  /\ arg.fn = "Peerv4::compact"
  /\ ret = NoArg
  /\ ret' = [fn |-> arg.fn, value |-> Peerv4_compact(arg.peer)]
  /\ UNCHANGED <<progVars, arg>>

CallPeerv6Compact ==
  /\ arg.fn = "Peerv6::compact"
  /\ ret = NoArg
  /\ ret' = [fn |-> arg.fn, value |-> Peerv6_compact(arg.peer)]
  /\ UNCHANGED <<progVars, arg>>

CallStringToEvent ==
  /\ arg.fn = "string_to_event"
  /\ ret = NoArg
  /\ ret' = [fn |-> arg.fn, value |-> string_to_event(arg.s)]
  /\ UNCHANGED <<progVars, arg>>

\* The announce is parsed and the handler picks its branch.
CallAnnounceRequestNew ==
  /\ arg.fn = "AnnounceRequest::new"
  /\ ret = NoArg
  /\ LET r == AnnounceRequest_new(Announce(arg.info_hash, arg.peer, arg.event))
     IN ret' = [fn |-> arg.fn, value |-> [request |-> r, branch |-> FirstStep(r)]]
  /\ UNCHANGED <<progVars, arg>>

FnNext ==
  \/ CallPeerv4Compact
  \/ CallPeerv6Compact
  \/ CallStringToEvent
  \/ CallAnnounceRequestNew

SpecFn == InitFn /\ [][FnNext]_vars

\* ------------------------------------------------------- properties
Seeders(ih) == DOMAIN SwarmOf(records, ih).seeders
Leechers(ih) == DOMAIN SwarmOf(records, ih).leechers
Record(ih) == IF ih \in DOMAIN torrents THEN torrents[ih] ELSE NoTorrent
KnownHashes == DOMAIN records \cup DOMAIN torrents

C2_CountersMatchSwarm ==
  Quiescent =>
    \A ih \in KnownHashes :
      /\ Cardinality(Seeders(ih)) = Record(ih).complete
      /\ Cardinality(Leechers(ih)) = Record(ih).incomplete

\* Sequential runs: request i of hist, the stores it found and left.
HReq(i) == AnnounceRequest_new(hist[i].query)

IsAnnounce(i, ev, ih, p) ==
  /\ hist[i].kind = "announce"
  /\ HReq(i).ok
  /\ HReq(i).event = ev
  /\ HReq(i).info_hash = ih
  /\ HReq(i).peer = p

Finished(i) == i < Len(hist) \/ pc["h1"] \in {"idle", "done"}
TorrentsAfter(i) == IF i < Len(hist) THEN hist[i + 1].torrents ELSE torrents
RecordsAfter(i) == IF i < Len(hist) THEN hist[i + 1].records ELSE records
RecordIn(T, ih) == IF ih \in DOMAIN T THEN T[ih] ELSE NoTorrent

\* C3: a started announce followed at once by a stopped announce of the same
\* (info_hash, peer_id) leaves complete, incomplete and the membership of the
\* swarm as they were before the started.
C3_StartedStoppedRestores ==
  \A i \in 1..(Len(hist) - 1) : \A ih \in InfoHashes, p \in PeerIds :
    (IsAnnounce(i, "Started", ih, p) /\ IsAnnounce(i + 1, "Stopped", ih, p)
       /\ Finished(i + 1))
    => /\ RecordIn(TorrentsAfter(i + 1), ih).complete
            = RecordIn(hist[i].torrents, ih).complete
       /\ RecordIn(TorrentsAfter(i + 1), ih).incomplete
            = RecordIn(hist[i].torrents, ih).incomplete
       /\ DOMAIN SwarmOf(RecordsAfter(i + 1), ih).seeders
            = DOMAIN SwarmOf(hist[i].records, ih).seeders
       /\ DOMAIN SwarmOf(RecordsAfter(i + 1), ih).leechers
            = DOMAIN SwarmOf(hist[i].records, ih).leechers

\* C4: a completed announce that follows the peer's started adds 1 to complete
\* and 1 to downloaded, and a completed announce of a peer that is already a
\* seeder leaves complete, incomplete and downloaded as they were.
C4_CompletedCountsOnce ==
  \A i \in 1..Len(hist) : \A ih \in InfoHashes, p \in PeerIds :
    /\ (i > 1 /\ IsAnnounce(i - 1, "Started", ih, p)
          /\ IsAnnounce(i, "Completed", ih, p) /\ Finished(i))
       => /\ RecordIn(TorrentsAfter(i), ih).complete
               = RecordIn(hist[i].torrents, ih).complete + 1
          /\ RecordIn(TorrentsAfter(i), ih).downloaded
               = RecordIn(hist[i].torrents, ih).downloaded + 1
    /\ (IsAnnounce(i, "Completed", ih, p) /\ Finished(i)
          /\ p \in DOMAIN SwarmOf(hist[i].records, ih).seeders)
       => RecordIn(TorrentsAfter(i), ih) = RecordIn(hist[i].torrents, ih)

\* C5: from the empty stores, started, completed, stopped of one peer on one
\* info-hash end with complete = 0, incomplete = 0, downloaded = 1 and both
\* sets empty.
C5_Lifecycle ==
  \A ih \in InfoHashes, p \in PeerIds :
    (Len(hist) >= 3 /\ IsAnnounce(1, "Started", ih, p)
       /\ IsAnnounce(2, "Completed", ih, p) /\ IsAnnounce(3, "Stopped", ih, p)
       /\ Finished(3))
    => /\ RecordIn(TorrentsAfter(3), ih) =
            [complete |-> 0, incomplete |-> 0, downloaded |-> 1]
       /\ DOMAIN SwarmOf(RecordsAfter(3), ih).seeders = {}
       /\ DOMAIN SwarmOf(RecordsAfter(3), ih).leechers = {}

FailedParse(h) == kind[h] = "announce" /\ ~Req(h).ok

\* C6: an announce that does not parse leaves the peer store and the torrent
\* store as they were, adds 1 to announces_fail and nothing to announces_ok,
\* and is answered with the parse reason as failure_reason and every other
\* field default.
C6_ParseFailureBypassesStores ==
  /\ [](\A h \in Handlers :
          FailedParse(h) =>
            /\ pc[h] \in {"fail_announce", "done"}
            /\ Req(h).err # ""
            /\ pc[h] = "done" =>
                 resp[h] = [failure_reason |-> Req(h).err, interval |-> 0,
                            tracker_id |-> "", complete |-> 0, incomplete |-> 0,
                            peers |-> {}, peers6 |-> {}, files |-> <<>>])
  /\ [][\A h \in Handlers :
          pc'[h] # pc[h] =>
            /\ (pc[h] = "idle" /\ FailedParse(h)') =>
                 /\ records' = records
                 /\ torrents' = torrents
                 /\ stats' = stats
            /\ (pc[h] \notin {"idle", "done"} /\ FailedParse(h)) =>
                 /\ records' = records
                 /\ torrents' = torrents
                 /\ stats' = [stats EXCEPT !.announces_fail = @ + 1]]_vars

\* An announce that did not parse has been answered while a swarm exists.
C6_Witness ==
  \E h \in Handlers :
    /\ FailedParse(h)
    /\ pc[h] = "done"
    /\ stats.announces_fail = 1
    /\ records # Empty

HasKey(q, k) == \E i \in DOMAIN q : q[i][1] = k
RequiredKeys == {"info_hash", "peer_id", "port", "uploaded", "downloaded", "left"}

\* C7: an announce query that lacks a required key does not parse, the reason
\* is "Malformed announce request", and no event branch is entered.
C7_MissingKeysMalformed ==
  \A h \in Handlers :
    (kind[h] = "announce" /\ \E k \in RequiredKeys : ~HasKey(query[h], k))
    => /\ ~Req(h).ok
       /\ Req(h).err = "Malformed announce request"
       /\ pc[h] \in {"fail_announce", "done"}

BadScrape(h) ==
  kind[h] = "scrape" /\ \E i \in DOMAIN query[h] : query[h][i][1] # "info_hash"
GoodScrape(h) ==
  kind[h] = "scrape" /\ \A i \in DOMAIN query[h] : query[h][i][1] = "info_hash"

\* C8: a scrape query with a key that is not info_hash, wherever it stands, is
\* refused with "Malformed scrape request", the torrent store is not queried
\* and scrapes is not counted; a query of info_hash keys alone parses to their
\* values in query order.
C8_ScrapeKeys ==
  /\ [](\A h \in Handlers :
          /\ BadScrape(h) =>
               /\ ~ScrapeRequest_new(query[h]).ok
               /\ ScrapeRequest_new(query[h]).err = "Malformed scrape request"
               /\ pc[h] = "done"
               /\ resp[h].failure_reason = "Malformed scrape request"
               /\ resp[h].files = <<>>
          /\ GoodScrape(h) =>
               /\ ScrapeRequest_new(query[h]).ok
               /\ ScrapeRequest_new(query[h]).info_hashes
                    = [i \in DOMAIN query[h] |-> query[h][i][2]])
  /\ [][\A h \in Handlers :
          (BadScrape(h)' /\ pc'[h] # pc[h]) =>
            /\ torrents' = torrents
            /\ stats' = stats]_vars

\* A scrape whose second key is not info_hash has been refused while a
\* torrent record exists.
C8_Witness ==
  \E h \in Handlers :
    /\ BadScrape(h)
    /\ Len(query[h]) = 2
    /\ query[h][1][1] = "info_hash"
    /\ pc[h] = "done"
    /\ torrents # Empty

Occurrences(seq, x) == Cardinality({i \in DOMAIN seq : seq[i] = x})
Requested(h) == [i \in DOMAIN query[h] |-> query[h][i][2]]

NoneOf(h) == kind[h] = "announce" /\ Req(h).ok /\ Req(h).event = "None"

\* C10: an announce with event none from a peer that is in neither set adds
\* the peer to no set and changes no torrent record; it is still answered
\* with a success response holding a sample of the swarm, and counted in
\* announces_ok.
C10_NoneFromAbsentPeer ==
  [][\A h \in Handlers :
       (NoneOf(h) /\ pc'[h] # pc[h]) =>
         /\ torrents' = torrents
         /\ (pc[h] = "update_peer"
               /\ Req(h).peer \notin SwarmPeers(records, Req(h).info_hash))
            => records' = records
         /\ pc[h] # "update_peer" => records' = records
         /\ pc[h] = "get_peers" =>
              /\ resp'[h].peers \cup resp'[h].peers6
                   \subseteq SwarmPeers(records, Req(h).info_hash)
              /\ Cardinality(resp'[h].peers \cup resp'[h].peers6)
                   = Min(numwant[h],
                         Cardinality(SwarmPeers(records, Req(h).info_hash)))
         /\ pc[h] = "stats_write" =>
              /\ pc'[h] = "done"
              /\ stats' = [stats EXCEPT !.announces_ok = @ + 1]
              /\ resp'[h].failure_reason = ""
              /\ resp'[h].interval = AnnounceRate
              /\ resp'[h].peers = resp[h].peers
              /\ resp'[h].peers6 = resp[h].peers6]_vars

\* A none announce of a peer in neither set has been answered with a peer of
\* the swarm, and the peer is still in neither set.
C10_Witness ==
  \E h \in Handlers :
    /\ NoneOf(h)
    /\ pc[h] = "done"
    /\ Req(h).peer \notin SwarmPeers(records, Req(h).info_hash)
    /\ resp[h].peers \cup resp[h].peers6 # {}
    /\ stats.announces_ok = 2

\* The reaper goes through the swarm at the head of its snapshot.
ReaperStep == rpc = "scan" /\ rqueue # <<>> /\ rvisited' = rvisited + 1

\* C11: when the reaper has been through a swarm, its seeders and leechers are
\* the peers that were in them and whose age is less than peer_timeout, each
\* as it was; no peer of age peer_timeout or more is left, so with
\* peer_timeout = 0 the swarm is empty; no other swarm has changed.
C11_ReaperRetainsFresh ==
  [][ReaperStep =>
       LET ih == Head(rqueue)
       IN /\ \A o \in DOMAIN records \ {ih} : records'[o] = records[o]
          /\ DOMAIN records' = DOMAIN records
          /\ ih \in DOMAIN records =>
               /\ DOMAIN records'[ih].seeders
                    = DOMAIN records[ih].seeders \ Stale(records[ih].seeders)
               /\ DOMAIN records'[ih].leechers
                    = DOMAIN records[ih].leechers \ Stale(records[ih].leechers)
               /\ \A p \in DOMAIN records'[ih].seeders :
                    records'[ih].seeders[p] = records[ih].seeders[p]
               /\ \A p \in DOMAIN records'[ih].leechers :
                    records'[ih].leechers[p] = records[ih].leechers[p]
               /\ peer_timeout = 0 =>
                    records'[ih] = EmptySwarm]_vars

\* The reaper has been through the only swarm, has removed a peer of it and
\* has left another, and no handler has touched the peer store since.
C11_Witness ==
  /\ rpc = "scan"
  /\ rvisited = 1
  /\ ~interleaved
  /\ seeds_reaped + leeches_reaped >= 1
  /\ \E ih \in InfoHashes :
       /\ DOMAIN records = {ih}
       /\ Seeders(ih) \cup Leechers(ih) # {}
Monus(a, b) == IF a > b THEN a - b ELSE 0

\* C12: when the reaper has been through a swarm, the record's complete is
\* less by the seeders removed and its incomplete by the leechers removed, and
\* the statistics' seeders and leechers are less by the same numbers.
C12_ReaperAdjustsCounters ==
  [][ReaperStep =>
       LET ih == Head(rqueue)
           seeds == Cardinality(DOMAIN SwarmOf(records, ih).seeders)
                      - Cardinality(DOMAIN SwarmOf(records', ih).seeders)
           leeches == Cardinality(DOMAIN SwarmOf(records, ih).leechers)
                        - Cardinality(DOMAIN SwarmOf(records', ih).leechers)
       IN /\ RecordIn(torrents', ih).complete
               = Monus(RecordIn(torrents, ih).complete, seeds)
          /\ RecordIn(torrents', ih).incomplete
               = Monus(RecordIn(torrents, ih).incomplete, leeches)
          /\ stats'.seeders = Monus(stats.seeders, seeds)
          /\ stats'.leechers = Monus(stats.leechers, leeches)]_vars
\* A handler has changed the peer store for its request and has yet to change
\* the torrent store for it.
HalfDone(h) == kind[h] = "announce" /\ pc[h] \in {"new_leech", "new_seed"}

\* C13: between the peer-store mutation of a request and its torrent-store
\* mutation, no other handler and no reaper step changes the membership of
\* the swarm or the record of that info-hash, so that the stores and the
\* responses are those of the requests taken one after another.
C13_MutationsSerialized ==
  [][\A h \in Handlers :
       (HalfDone(h) /\ pc'[h] = pc[h]) =>
         LET ih == Req(h).info_hash
         IN /\ DOMAIN SwarmOf(records', ih).seeders
                 = DOMAIN SwarmOf(records, ih).seeders
            /\ DOMAIN SwarmOf(records', ih).leechers
                 = DOMAIN SwarmOf(records, ih).leechers
            /\ RecordIn(torrents', ih) = RecordIn(torrents, ih)]_vars
\* Sequential runs: the request being served, once it has its response.
Answered(i) ==
  /\ i = Len(hist)
  /\ hist[i].kind = "announce"
  /\ HReq(i).ok
  /\ pc["h1"] = "done"

\* The handler's steps from the peer sample on leave both stores alone.
ReadsAfterWrites ==
  [][(pc["h1"] \in {"get_peers", "get_announce_stats", "stats_write"}
        /\ pc'["h1"] # pc["h1"])
       => (records' = records /\ torrents' = torrents)]_vars

\* The response's complete and incomplete are the record's.
CountersOfRecord ==
  \A i \in DOMAIN hist :
    Answered(i) =>
      LET ih == HReq(i).info_hash
      IN /\ resp["h1"].complete = RecordIn(torrents, ih).complete
         /\ resp["h1"].incomplete = RecordIn(torrents, ih).incomplete

\* A started response counts the announcing leecher.
StartedCounted ==
  \A i \in DOMAIN hist :
    (Answered(i) /\ HReq(i).event = "Started") =>
      resp["h1"].incomplete
        = RecordIn(hist[i].torrents, HReq(i).info_hash).incomplete + 1

\* A stopped response no longer counts the stopped peer.
StoppedNotCounted ==
  \A i \in DOMAIN hist :
    (Answered(i) /\ HReq(i).event = "Stopped") =>
      LET ih == HReq(i).info_hash
          before == RecordIn(hist[i].torrents, ih)
          swarm == SwarmOf(hist[i].records, ih)
      IN /\ HReq(i).peer \in DOMAIN swarm.leechers =>
              resp["h1"].incomplete = Monus(before.incomplete, 1)
         /\ HReq(i).peer \in DOMAIN swarm.seeders =>
              resp["h1"].complete = Monus(before.complete, 1)

\* C14: with no other request interleaved, a request's store mutations are
\* all applied before its peer sample and its counter read, and the complete
\* and incomplete of its response are the record's after them: a started
\* response counts the announcing leecher, a stopped response no longer
\* counts the stopped peer.
C14_MutationsBeforeReads ==
  /\ ReadsAfterWrites
  /\ [](CountersOfRecord /\ StartedCounted /\ StoppedNotCounted)
\* C15: compact() of an IPv4 peer is 6 bytes, the 4 octets of the address in
\* their order and then the port's high byte and low byte; of an IPv6 peer 18
\* bytes, the 16 octets in their order and then the port's two bytes; the
\* accumulation never overflows its 32-bit or 128-bit accumulator.
C15_CompactBytes ==
  (ret # NoArg /\ arg.fn \in {"Peerv4::compact", "Peerv6::compact"}) =>
    /\ ~ret.value.overflow
    /\ ret.value.bytes
         = arg.peer.ip \o <<arg.peer.port \div 256, arg.peer.port % 256>>
    /\ arg.fn = "Peerv4::compact" => Len(ret.value.bytes) = 6
    /\ arg.fn = "Peerv6::compact" => Len(ret.value.bytes) = 18
    /\ \A i \in DOMAIN ret.value.bytes : ret.value.bytes[i] \in 0..255

\* 127.0.0.1 port 6681 and 2001:db8:85a3::8a2e:370:7334 port 6681 have been
\* encoded, and the highest address with the highest port.
C15_Witness ==
  /\ ret # NoArg
  /\ arg.fn \in {"Peerv4::compact", "Peerv6::compact"}
  /\ \/ ret.value.bytes = <<127, 0, 0, 1, 26, 25>>
     \/ ret.value.bytes = [i \in 1..6 |-> 255]
     \/ ret.value.bytes
          = <<32, 1, 13, 184, 133, 163, 0, 0, 0, 0, 138, 46, 3, 112, 115, 52,
              26, 25>>
EventOf(s) ==
  IF s = "started" THEN "Started"
  ELSE IF s = "stopped" THEN "Stopped"
  ELSE IF s = "completed" THEN "Completed"
  ELSE "None"

\* C16: the event value "started" is Started, "stopped" Stopped, "completed"
\* Completed, and every other string, the empty one and unknown ones, None;
\* an announce with an unknown event value parses, to the request an announce
\* with no event value parses to, and takes the branch of Event::None.
C16_EventValues ==
  ret # NoArg =>
    /\ arg.fn = "string_to_event" => ret.value = EventOf(arg.s)
    /\ arg.fn = "AnnounceRequest::new" =>
         /\ ret.value.request.ok
         /\ ret.value.request.event = EventOf(arg.event)
         /\ arg.event \notin {"started", "stopped", "completed"} =>
              /\ ret.value.request
                   = AnnounceRequest_new(Announce(arg.info_hash, arg.peer, ""))
              /\ ret.value.branch = "update_peer"

\* An announce with the event value "garbage" has been parsed and has taken
\* the branch of Event::None.
C16_Witness ==
  /\ ret # NoArg
  /\ arg.fn = "AnnounceRequest::new"
  /\ arg.event = "garbage"
  /\ ret.value.branch = "update_peer"
StoppedSub(h) ==
  /\ kind[h] = "announce"
  /\ Req(h).ok
  /\ Req(h).event = "Stopped"
  /\ statsLock = h
  /\ pc[h] \in {"remove_seeder", "remove_leecher"}
  /\ pc'[h] = "get_peers"

C18_CompletedAbsentNoOp ==
  \A i \in DOMAIN hist : \A ih \in InfoHashes, p \in PeerIds :
    (IsAnnounce(i, "Completed", ih, p) /\ Finished(i)
       /\ p \notin DOMAIN SwarmOf(hist[i].records, ih).leechers)
    => /\ DOMAIN SwarmOf(RecordsAfter(i), ih).seeders
            = DOMAIN SwarmOf(hist[i].records, ih).seeders
       /\ DOMAIN SwarmOf(RecordsAfter(i), ih).leechers
            = DOMAIN SwarmOf(hist[i].records, ih).leechers
       /\ RecordIn(TorrentsAfter(i), ih) = RecordIn(hist[i].torrents, ih)
       /\ Answered(i) => resp["h1"].failure_reason = ""
Range(q) == {q[i] : i \in DOMAIN q}

\* C19: the reaper holds the peer-store lock while it collects the
\* info-hashes, changing no swarm, and while it filters one swarm, changing no
\* other, and not in between: whenever it is between two steps, a handler
\* that is at a peer-store call can make it.
C19_ReaperReleasesLock ==
  /\ [][/\ (rpc = "idle" /\ rpc' = "scan") =>
             (records' = records /\ Range(rqueue') = DOMAIN records)
        /\ ReaperStep =>
             /\ DOMAIN records' = DOMAIN records
             /\ \A o \in DOMAIN records \ {Head(rqueue)} : records'[o] = records[o]
        /\ (rpc = "scan" /\ rpc' = "idle") =>
             (records' = records /\ rqueue = <<>>)]_vars
  /\ [](rpc = "scan" =>
          \A h \in Handlers :
            /\ pc[h] = "put_leecher" => ENABLED StartedPutLeecher(h)
            /\ pc[h] = "promote_leecher" => ENABLED CompletedPromoteLeecher(h))

\* In a pass over two info-hashes, a handler has changed the peer store after
\* the reaper went through the first and before it goes through the second.
C19_Witness ==
  /\ rpc = "scan"
  /\ rvisited = 1
  /\ Len(rqueue) = 1
  /\ interleaved
\* Sequential runs: the announces that have run to completion, those that
\* parsed and those that did not.
AnnouncesDone(ok) ==
  {i \in DOMAIN hist :
     hist[i].kind = "announce" /\ Finished(i) /\ HReq(i).ok = ok}

\* C20: every announce, whatever its event and whether or not it parses, adds
\* 1 to exactly one of announces_ok and announces_fail, announces_ok if it
\* parsed and announces_fail if not, so that announces_ok + announces_fail is
\* the number of announce handlers that have run to completion.
C20_EveryAnnounceCounted ==
  /\ [](/\ stats.announces_fail = Cardinality(AnnouncesDone(FALSE))
        /\ stats.announces_ok - Cardinality(AnnouncesDone(TRUE)) \in {0, 1}
        /\ pc["h1"] \in {"idle", "done"} =>
             /\ stats.announces_ok = Cardinality(AnnouncesDone(TRUE))
             /\ stats.announces_ok + stats.announces_fail
                  = Cardinality({i \in DOMAIN hist : hist[i].kind = "announce"}))
  /\ [][/\ stats'.announces_ok \in {stats.announces_ok, stats.announces_ok + 1}
        /\ stats'.announces_fail \in {stats.announces_fail, stats.announces_fail + 1}
        /\ stats'.announces_ok = stats.announces_ok
             \/ stats'.announces_fail = stats.announces_fail]_vars

\* A started, a stopped and an announce that did not parse have all been
\* answered.
C20_Witness ==
  /\ Len(hist) = 3
  /\ pc["h1"] = "done"
  /\ stats.announces_ok = 2
  /\ stats.announces_fail = 1
  /\ \E i \in DOMAIN hist : hist[i].kind = "announce" /\ HReq(i).ok
                               /\ HReq(i).event = "Stopped"
\* C21: no interleaving of the announce, scrape and statistics handlers and
\* the reaper's passes ends in a wait that is never granted: every handler
\* that has started ends, every reaper pass ends, and the statistics' write
\* guard, which the stopped branch holds over its store calls, is given back.
C21_NoDeadlock ==
  /\ \A h \in Handlers : (pc[h] # "idle") ~> (pc[h] = "idle")
  /\ (rpc = "scan") ~> (rpc = "idle")
  /\ (statsLock # NoHolder) ~> (statsLock = NoHolder)

\* A stopped announce holds the statistics' write guard at a store call while
\* another handler waits for the statistics and the reaper is in a pass.
C21_Witness ==
  \E h, g \in Handlers :
    /\ statsLock = h
    /\ pc[h] \in {"remove_seeder", "remove_leecher", "get_peers"}
    /\ pc[g] \in {"stats_write", "stats_read", "incr_scrapes", "fail_announce",
                   "stats_write_stopped"}
    /\ rpc = "scan"
    /\ rqueue # <<>>

\* ---------------------------------------------------------------------------
\* Totals of the statistics against the swarms.
SeederPairs == {x \in (DOMAIN records) \X PeerIds : x[2] \in Seeders(x[1])}
LeecherPairs == {x \in (DOMAIN records) \X PeerIds : x[2] \in Leechers(x[1])}
TotalSeeders == Cardinality(SeederPairs)
TotalLeechers == Cardinality(LeecherPairs)

\* C22: in every quiescent state the statistics' leecher total is the number
\* of peers in all leechers sets and the seeder total is the number of peers
\* in all seeders sets.
C22_TotalsMatchSwarms ==
  Quiescent =>
    /\ stats.leechers = TotalLeechers
    /\ stats.seeders = TotalSeeders

\* ---------------------------------------------------------------------------
\* The reaper's footprint on the peer store.
ReaperMoves == rpc' # rpc \/ rvisited' # rvisited

\* C23: a step of a reaper pass only removes peers.  It adds no peer to any
\* set and moves none between seeders and leechers, it leaves the fields of
\* the peers that stay, it creates and deletes no swarm entry, it leaves every
\* swarm but the one it has reached, so every swarm that was not in the
\* snapshot, and an info-hash of the snapshot that is no longer in the map is
\* passed over: the store and the totals stay and the pass goes on.
C23_ReaperOnlyRemoves ==
  [][ReaperMoves =>
       /\ DOMAIN records' = DOMAIN records
       /\ \A ih \in DOMAIN records :
            /\ DOMAIN records'[ih].seeders \subseteq DOMAIN records[ih].seeders
            /\ DOMAIN records'[ih].leechers \subseteq DOMAIN records[ih].leechers
            /\ \A p \in DOMAIN records'[ih].seeders :
                 records'[ih].seeders[p] = records[ih].seeders[p]
            /\ \A p \in DOMAIN records'[ih].leechers :
                 records'[ih].leechers[p] = records[ih].leechers[p]
            /\ (~ReaperStep \/ ih # Head(rqueue)) =>
                 records'[ih] = records[ih]
       /\ (ReaperStep /\ Head(rqueue) \notin DOMAIN records) =>
            /\ records' = records
            /\ seeds_reaped' = seeds_reaped
            /\ leeches_reaped' = leeches_reaped
            /\ rqueue' = Tail(rqueue)
            /\ rpc' = "scan"]_vars

\* A pass over a snapshot of two info-hashes has ended its loop with no
\* handler in between: the first swarm had left the map when the pass reached
\* it, and of the second one peer has been removed and another is left.
C23_Witness ==
  /\ rpc = "scan"
  /\ rvisited = 2
  /\ rqueue = <<>>
  /\ ~interleaved
  /\ seeds_reaped + leeches_reaped >= 1
  /\ \E ih \in InfoHashes :
       /\ DOMAIN records = {ih}
       /\ Seeders(ih) \cup Leechers(ih) # {}

\* ---------------------------------------------------------------------------
\* Who takes a peer out of its swarm.
StoppedBy(h, x) ==
  /\ pc[h] \in {"remove_seeder", "remove_leecher"}
  /\ pc'[h] # pc[h]
  /\ <<Req(h).info_hash, Req(h).peer>> = x

AllPairs == InfoHashes \X PeerIds

\* No announce of x is under way and none is to come.
Silent(x) ==
  /\ nreq = MaxEvictRequests
  /\ \A h \in Handlers :
       pc[h] \in {"idle", "done"} \/ <<Req(h).info_hash, Req(h).peer>> # x

\* C25: a peer held in a swarm that sends no further announce is in the end
\* removed from its swarm, the reaper being run again and again and time going
\* on; the pass that reaches its swarm when its age is peer_timeout or more
\* removes it, and a peer list is drawn from the peers held at that moment,
\* so not from the peers removed before.
C25_SilentPeerEvicted ==
  /\ \A x \in AllPairs :
       (x \in Pairs(records) /\ Silent(x)) ~> (x \notin Pairs(records))
  /\ [][ReaperStep =>
          \A x \in Pairs(records) :
            (x[1] = Head(rqueue) /\ x \in Pairs(records')) =>
               /\ x[2] \in Seeders(x[1]) => records[x[1]].seeders[x[2]] < peer_timeout
               /\ x[2] \in Leechers(x[1]) => records[x[1]].leechers[x[2]] < peer_timeout]_vars
  /\ [][\A h \in Handlers :
          (pc[h] = "get_peers" /\ pc'[h] # pc[h]) =>
             resp'[h].peers \cup resp'[h].peers6
               \subseteq SwarmPeers(records, Req(h).info_hash)]_vars

\* Every announce has been answered, the peers that were held have been
\* silent for peer_timeout and a pass has just removed the last of them.
C25_Witness ==
  /\ nreq = MaxEvictRequests
  /\ AllIdle
  /\ rpc = "scan"
  /\ seeds_reaped + leeches_reaped >= 1
  /\ torrents # Empty
  /\ Pairs(records) = {}

\* ---------------------------------------------------------------------------
\* The stores a dropped handler leaves.
Dropped(h) == pc[h] = "dropped"

\* Nothing is under way and a handler has been dropped.
SettledAfterDrop ==
  /\ \A h \in Handlers : pc[h] \in {"idle", "done", "dropped"}
  /\ \E h \in Handlers : Dropped(h)
  /\ rpc = "idle"

\* C26: when a handler has been dropped at an await and nothing is under way,
\* the stores are as some sequence of requests served to their end leaves
\* them: every swarm has its torrent record, the seeders and leechers of
\* every info-hash are as many as the record's complete and incomplete, and
\* the statistics' write guard is held by no one.
C26_DropLeavesStoresWhole ==
  SettledAfterDrop =>
    /\ statsLock = NoHolder
    /\ DOMAIN records \subseteq DOMAIN torrents
    /\ \A ih \in KnownHashes :
         /\ Cardinality(Seeders(ih)) = Record(ih).complete
         /\ Cardinality(Leechers(ih)) = Record(ih).incomplete

====
